---- MODULE Spec2Model ----
(***************************************************************************)
(* Model of the car CRUD service of src/app.py: the request handlers       *)
(* create_cars, get_cars, delete_car and update_car over the "cars" table  *)
(* (Record Store) and the Cloudinary account (Image Store).                *)
(*                                                                         *)
(* Every handler runs in its own SQLAlchemy session (get_db), so an ORM    *)
(* instance lives for one request only.  The class Car maps the columns    *)
(* id, make, model, year and image_filename; image_url is NOT a mapped     *)
(* column, so an assignment to db_car.image_url creates a plain Python     *)
(* attribute on that one instance (never flushed by commit), and a read of *)
(* db_car.image_url on a freshly loaded instance raises AttributeError.    *)
(* An exception that is not an HTTPException leaves the handler as an      *)
(* unhandled failure (HTTP 500); get_db then closes the session, which     *)
(* discards whatever was not committed.                                    *)
(***************************************************************************)
EXTENDS Integers, Sequences, FiniteSets, TLC

(* ---------------- bounds ---------------- *)
MaxCars == 2        \* rows ever inserted into the table
MaxItems == 2       \* items (and files) of one POST /cars request
MaxYearLen == 1     \* characters of the "year" form field of PUT
MaxImages == 2      \* uploads ever accepted by the Image Store

(* ---------------- input domains ---------------- *)
NULL == "NULL"                       \* Python None / SQL NULL (text fields)
NoRef == <<>>                        \* None / NULL for an image reference
Makes == {"Toyota", "Honda"}
Models == {"Corolla", "Civic"}
Years == {2}
YearChars == {"0", "a"}              \* a digit and a non-digit
UpOk == "up_ok"                      \* a file whose upload Cloudinary accepts
UpFail == "up_fail"                  \* a file whose upload raises
NoFile == "no_file"                  \* PUT without a file part

CarCreate == [make : Makes, model : Models, year : Years]

SeqsUpTo(S, n) == UNION {[1..k -> S] : k \in 0..n}

YearStrings == SeqsUpTo(YearChars, MaxYearLen)    \* <<>> is "field omitted"

(* ---------------- pure helpers ---------------- *)
ValueError == -1

Digit(c) == IF c = "0" THEN 0 ELSE ValueError

RECURSIVE ParseFrom(_, _, _)
ParseFrom(s, i, acc) ==
    IF i > Len(s) THEN acc
    ELSE IF Digit(s[i]) = ValueError THEN ValueError
    ELSE ParseFrom(s, i + 1, acc * 10 + Digit(s[i]))

\* int(year): the decimal value, or ValueError for anything that is not a number
ParseInt(s) == IF Len(s) = 0 THEN ValueError ELSE ParseFrom(s, 1, 0)

\* Cloudinary: upload(..., folder="car_images") stores the image under the
\* public id car_images/<name> and returns the secure_url .../car_images/<name>.jpg
PublicId(n) == <<"car_images", n>>
SecureUrl(pid) == <<"upload", pid[1], pid[2], "jpg">>

\* image_url.split("/")[-1].split(".")[0]: the last path segment without its
\* extension (the folder is not part of it)
PublicIdFromUrl(url) == <<url[Len(url) - 1]>>

\* cloudinary.uploader.destroy(public_id): removes the image with that public id
Destroy(imgs, pid) == imgs \ {pid}

(* ---------------- ORM instances ---------------- *)
\* Car(make=..., model=..., year=...): a transient instance, no image, no id yet
NewCarDangling(car) ==
    [id |-> 0, make |-> car.make, model |-> car.model, year |-> car.year,
     image_filename |-> SecureUrl(PublicId(0)), attrs |-> {}, image_url |-> NoRef]

NewCar(car) ==
    [id |-> 0, make |-> car.make, model |-> car.model, year |-> car.year,
     image_filename |-> NoRef, attrs |-> {}, image_url |-> NoRef]

\* db.query(Car).filter(Car.id == car_id).first(): the mapped columns only
LoadCar(id, row) ==
    [id |-> id, make |-> row.make, model |-> row.model, year |-> row.year,
     image_filename |-> row.image_filename, attrs |-> {}, image_url |-> NoRef]

\* what commit writes for an instance: the mapped columns
Columns(obj) ==
    [make |-> obj.make, model |-> obj.model, year |-> obj.year,
     image_filename |-> obj.image_filename]

\* db_car.image_url = url: a plain instance attribute
SetImageUrl(obj, url) == [obj EXCEPT !.attrs = {"image_url"}, !.image_url = url]

\* db_car.image_url raises AttributeError unless the attribute was set
HasImageUrl(obj) == "image_url" \in obj.attrs

\* CarResponse.from_attributes: image_url defaults to None when absent
CarResponse(obj) ==
    [id |-> obj.id, make |-> obj.make, model |-> obj.model, year |-> obj.year,
     image_url |-> IF HasImageUrl(obj) THEN obj.image_url ELSE NoRef]

(* ---------------- state ---------------- *)
VARIABLES
    rows,       \* the cars table: id -> mapped columns
    nextId,     \* the next value of the id sequence
    images,     \* public ids of the images held by the Image Store
    nextImg,    \* the next image name the Image Store generates
    stored,     \* history: id -> reference returned by the last successful upload for it
    op,         \* the last request's operation
    req,        \* the last request's inputs
    status,     \* the last request's terminal state
    body,       \* the last request's response records
    calls       \* the Image Store calls the last request made

vars == <<rows, nextId, images, nextImg, stored, op, req, status, body, calls>>

Init ==
    /\ rows = <<>>
    /\ nextId = 1
    /\ images = {}
    /\ nextImg = 1
    /\ stored = <<>>
    /\ op = "none"
    /\ req = [id |-> 0]
    /\ status = "none"
    /\ body = <<>>
    /\ calls = <<>>

\* the persistent part of the state, as a handler sees and leaves it
Store == [rows |-> rows, nextId |-> nextId, images |-> images,
          nextImg |-> nextImg, stored |-> stored, calls |-> <<>>]

Result(st, s, b) == [st |-> st, status |-> s, body |-> b]

Idle == op = "none"

\* a handler runs from "request received" to its terminal state
Finish(o, r, res) ==
    /\ rows' = res.st.rows
    /\ nextId' = res.st.nextId
    /\ images' = res.st.images
    /\ nextImg' = res.st.nextImg
    /\ stored' = res.st.stored
    /\ calls' = res.st.calls
    /\ op' = o
    /\ req' = r
    /\ status' = res.status
    /\ body' = res.body

(* ---------------- Image Store calls ---------------- *)
Called(st, name) == [st EXCEPT !.calls = Append(@, name)]

\* a successful cloudinary.uploader.upload made for the car `id`
Upload(st, id) ==
    LET pid == PublicId(st.nextImg)
    IN [Called(st, "upload") EXCEPT
            !.images = @ \cup {pid},
            !.nextImg = @ + 1,
            !.stored = (id :> SecureUrl(pid)) @@ @]

\* db.commit() of a loaded or added instance
Commit(st, obj) == [st EXCEPT !.rows = (obj.id :> Columns(obj)) @@ @]

(* ---------------- POST /cars ---------------- *)
\* line 118: files given and of another length than the items
FilesMismatchTooManyOnly(cars, files) == Len(files) > Len(cars)

FilesMismatch(cars, files) == Len(files) > 0 /\ Len(files) # Len(cars)

\* lines 122-137: one row per item, committed before its upload is tried
RECURSIVE CreateLoop(_, _, _, _, _)
CreateLoop(i, cars, files, st, out) ==
    IF i > Len(cars) THEN Result(st, "success", out)
    ELSE
      LET obj1 == [NewCar(cars[i]) EXCEPT !.id = st.nextId]
          st1 == [Commit(st, obj1) EXCEPT !.nextId = @ + 1]
      IN IF Len(files) = 0
         THEN CreateLoop(i + 1, cars, files, st1, Append(out, CarResponse(obj1)))
         ELSE IF i > Len(files)                       \* files[i]: IndexError
         THEN Result(st1, "ServerError", <<>>)
         ELSE IF files[i] = UpFail                    \* upload raises
         THEN Result(Called(st1, "upload"), "ServerError", <<>>)
         ELSE
           LET obj2 == SetImageUrl(obj1, SecureUrl(PublicId(st1.nextImg)))
               st2 == Commit(Upload(st1, obj1.id), obj2)
           IN CreateLoop(i + 1, cars, files, st2, Append(out, CarResponse(obj2)))

\* valid: json.loads and parse_obj_as accept the "cars" form field
create_cars(valid, cars, files, st) ==
    IF ~valid THEN Result(st, "ValidationError", <<>>)
    ELSE IF FilesMismatch(cars, files) THEN Result(st, "ValidationError", <<>>)
    ELSE CreateLoop(1, cars, files, st, <<>>)

BulkCreate ==
    /\ Idle
    /\ \E valid \in BOOLEAN,
       cars \in SeqsUpTo(CarCreate, MaxItems),
       files \in SeqsUpTo({UpOk, UpFail}, MaxItems) :
        /\ ~valid => cars = <<>>
        /\ nextId + Len(cars) <= MaxCars + 1
        /\ Finish("BulkCreate", [valid |-> valid, cars |-> cars, files |-> files],
                  create_cars(valid, cars, files, Store))

(* ---------------- GET /cars ---------------- *)
\* the ids of the table in ascending order
RECURSIVE IdsFrom(_, _, _)
IdsFrom(i, n, t) ==
    IF i >= n THEN <<>>
    ELSE IF i \in DOMAIN t THEN <<i>> \o IdsFrom(i + 1, n, t)
    ELSE IdsFrom(i + 1, n, t)

get_cars(st) ==
    LET ids == IdsFrom(1, st.nextId, st.rows)
    IN Result(st, "success",
              [k \in 1..Len(ids) |-> CarResponse(LoadCar(ids[k], st.rows[ids[k]]))])

List == Idle /\ Finish("List", [id |-> 0], get_cars(Store))

(* ---------------- GET /cars/{id} ---------------- *)
\* lines 149-156 are commented out: the path has PUT and DELETE routes only
get_car(id, st) == Result(st, "MethodNotAllowed", <<>>)

GetById == Idle /\ \E id \in 1..(MaxCars + 1) : Finish("GetById", [id |-> id], get_car(id, Store))

(* ---------------- DELETE /cars/{id} ---------------- *)
\* destroyOk: the outcome of cloudinary.uploader.destroy, were it called
delete_car(id, destroyOk, st) ==
    IF id \notin DOMAIN st.rows THEN Result(st, "NotFound", <<>>)
    ELSE
      LET obj == LoadCar(id, st.rows[id])
      IN IF ~HasImageUrl(obj)                          \* line 166: AttributeError
         THEN Result(st, "ServerError", <<>>)
         ELSE
           LET st1 == IF obj.image_url # NoRef
                      THEN [Called(st, "destroy") EXCEPT
                              !.images = Destroy(@, PublicIdFromUrl(obj.image_url))]
                      ELSE st
           IN IF obj.image_url # NoRef /\ ~destroyOk    \* destroy raises
              THEN Result(Called(st, "destroy"), "ServerError", <<>>)
              ELSE Result([st1 EXCEPT !.rows = [i \in DOMAIN @ \ {id} |-> @[i]]],
                          "success", <<>>)

\* the outcomes of destroy that matter: none unless the handler can reach the call
DestroyOutcomes(id, st) ==
    IF id \in DOMAIN st.rows /\ HasImageUrl(LoadCar(id, st.rows[id]))
    THEN BOOLEAN ELSE {TRUE}

Delete ==
    /\ Idle
    /\ \E id \in 1..(MaxCars + 1) : \E destroyOk \in DestroyOutcomes(id, Store) :
        Finish("Delete", [id |-> id, destroyOk |-> destroyOk],
               delete_car(id, destroyOk, Store))

(* ---------------- PUT /cars/{id} ---------------- *)
\* lines 188-191: a text field is applied only when the form carries it
ApplyTextFullReplace(old, new) == new

ApplyText(old, new) == IF new # NULL THEN new ELSE old

\* what the session holds when int(year) raises: nothing is committed
YearErrorCommitsPartial(st, obj) == Result(Commit(st, obj), "ValidationError", <<>>)

YearError(st, obj) == Result(st, "ValidationError", <<>>)

\* jsonable_encoder(db_car): the instance's attributes after refresh
UpdateBody(obj) ==
    [id |-> obj.id, make |-> obj.make, model |-> obj.model, year |-> obj.year,
     image_filename |-> obj.image_filename,
     image_url |-> IF HasImageUrl(obj) THEN obj.image_url ELSE NoRef]

\* lines 199-207 for a request that carries a file
ReplaceImage(file, destroyOk, st, obj) ==
    IF ~HasImageUrl(obj)                               \* line 201: AttributeError
    THEN Result(st, "ServerError", <<>>)
    ELSE IF obj.image_url # NoRef /\ ~destroyOk        \* destroy raises
    THEN Result(Called(st, "destroy"), "ServerError", <<>>)
    ELSE
      LET st1 == IF obj.image_url # NoRef
                 THEN [Called(st, "destroy") EXCEPT
                         !.images = Destroy(@, PublicIdFromUrl(obj.image_url))]
                 ELSE st
      IN IF file = UpFail                              \* upload raises
         THEN Result([Called(st1, "upload") EXCEPT !.rows = st.rows],
                     "ServerError", <<>>)
         ELSE
           LET obj1 == SetImageUrl(obj, SecureUrl(PublicId(st1.nextImg)))
           IN Result(Commit(Upload(st1, obj.id), obj1), "success", <<UpdateBody(obj1)>>)

update_car(id, make, model, year, file, destroyOk, st) ==
    IF id \notin DOMAIN st.rows THEN Result(st, "NotFound", <<>>)
    ELSE
      LET obj == LoadCar(id, st.rows[id])
          obj1 == [obj EXCEPT !.make = ApplyText(@, make),
                              !.model = ApplyText(@, model)]
      IN IF Len(year) > 0 /\ ParseInt(year) = ValueError
         THEN YearError(st, obj1)
         ELSE
           LET obj2 == IF Len(year) > 0 THEN [obj1 EXCEPT !.year = ParseInt(year)]
                       ELSE obj1
           IN IF file # NoFile
              THEN ReplaceImage(file, destroyOk, st, obj2)
              ELSE Result(Commit(st, obj2), "success", <<UpdateBody(obj2)>>)

Update ==
    /\ Idle
    /\ \E id \in 1..(MaxCars + 1),
       make \in Makes \cup {NULL},
       model \in Models \cup {NULL},
       year \in YearStrings,
       file \in {NoFile, UpOk, UpFail} :
      \E destroyOk \in DestroyOutcomes(id, Store) :
        /\ nextImg <= MaxImages
        /\ Finish("Update",
                  [id |-> id, make |-> make, model |-> model, year |-> year,
                   file |-> file, destroyOk |-> destroyOk],
                  update_car(id, make, model, year, file, destroyOk, Store))

(* ---------------- end of a request ---------------- *)
\* get_db's finally: the session is closed and the response has left; the
\* instances of the request, and whatever they held uncommitted, are gone
CloseSession ==
    /\ ~Idle
    /\ op' = "none"
    /\ req' = [id |-> 0]
    /\ status' = "none"
    /\ body' = <<>>
    /\ calls' = <<>>
    /\ UNCHANGED <<rows, nextId, images, nextImg, stored>>

Next == BulkCreate \/ List \/ GetById \/ Update \/ Delete \/ CloseSession

Spec == Init /\ [][Next]_vars

(* ======================= the claims ======================= *)

Terminal == {"success", "NotFound", "ValidationError"}

StoredRef(id) == IF id \in DOMAIN stored THEN stored[id] ELSE NoRef

\* ---- C1 ----
CreateStoresInputs ==
    (op' = "BulkCreate" /\ status' = "success") =>
        /\ Len(body') = Len(req'.cars)
        /\ \A i \in 1..Len(body') :
              /\ body'[i].id \notin 1..(nextId - 1)
              /\ \A j \in 1..Len(body') : body'[j].id = body'[i].id => j = i
              /\ body'[i].id \in DOMAIN rows'
              /\ rows'[body'[i].id].make = req'.cars[i].make
              /\ rows'[body'[i].id].model = req'.cars[i].model
              /\ rows'[body'[i].id].year = req'.cars[i].year

GetByIdReturnsRow ==
    (op = "GetById" /\ req.id \in DOMAIN rows) =>
        /\ status = "success"
        /\ Len(body) = 1
        /\ body[1].id = req.id
        /\ body[1].make = rows[req.id].make
        /\ body[1].model = rows[req.id].model
        /\ body[1].year = rows[req.id].year

\* C1: BulkCreate gives every item a fresh, distinct id and stores the item's
\* make, model and year under it, and GetById on the id of a record returns
\* that record's make, model and year.
CE_C1 == [][CreateStoresInputs]_vars /\ []GetByIdReturnsRow

\* ---- C2 ----
\* C2: Delete on an id that is not in the table ends in NotFound and changes
\* nothing; Delete on an id that is in the table removes its row.
CE_C2 ==
    [][op' = "Delete" =>
         IF req'.id \notin DOMAIN rows
         THEN status' = "NotFound" /\ UNCHANGED <<rows, nextId, images, nextImg>>
         ELSE req'.id \notin DOMAIN rows']_vars

\* ---- C3 ----
OnlyMake(r) == r.make # NULL /\ r.model = NULL /\ r.year = <<>> /\ r.file = NoFile

\* C3: Update of an existing id with only make supplied succeeds, sets that
\* row's make to the supplied value and leaves its model, year and image
\* reference, every other row and the Image Store as they were.
Thm_C3 ==
    [][(op' = "Update" /\ req'.id \in DOMAIN rows /\ OnlyMake(req')) =>
         /\ status' = "success"
         /\ rows' = [rows EXCEPT ![req'.id].make = req'.make]
         /\ UNCHANGED <<nextId, images, nextImg>>]_vars

Wit_C3 ==
    /\ op = "Update" /\ OnlyMake(req) /\ status = "success"
    /\ rows[req.id].make = req.make
    /\ rows[req.id].year = 0
    /\ \E other \in DOMAIN rows : other # req.id /\ rows[other].make # req.make

\* ---- C4 ----
BadYear(r) == Len(r.year) > 0 /\ ParseInt(r.year) = ValueError

\* C4: Update of an existing id with a year that does not parse ends in
\* ValidationError, leaves the table as it was and makes no Image Store call,
\* whatever else the request carries.
Thm_C4 ==
    [][(op' = "Update" /\ req'.id \in DOMAIN rows /\ BadYear(req')) =>
         /\ status' = "ValidationError"
         /\ calls' = <<>>
         /\ UNCHANGED <<rows, nextId, images, nextImg>>]_vars

Wit_C4 ==
    /\ op = "Update" /\ req.id \in DOMAIN rows /\ BadYear(req)
    /\ status = "ValidationError"
    /\ req.make # NULL /\ req.make # rows[req.id].make
    /\ req.model # NULL /\ req.model # rows[req.id].model
    /\ req.file # NoFile

\* ---- C5 ----
Mismatch(r) == r.valid /\ Len(r.files) > 0 /\ Len(r.files) # Len(r.cars)

\* C5: BulkCreate with files given in another number than the items ends in
\* ValidationError, inserts no row and makes no Image Store call.
Thm_C5 ==
    [][(op' = "BulkCreate" /\ Mismatch(req')) =>
         /\ status' = "ValidationError"
         /\ calls' = <<>>
         /\ UNCHANGED <<rows, nextId, images, nextImg>>]_vars

Wit_C5 ==
    /\ op = "BulkCreate" /\ Mismatch(req) /\ status = "ValidationError"
    /\ Len(req.cars) = 2 /\ Len(req.files) = 1

\* ---- C6 ----
\* C6: when the upload for item i of a BulkCreate fails, the request still
\* succeeds, a row is inserted for every item, and item i's row has no image
\* reference.
CE_C6 ==
    [][(op' = "BulkCreate" /\ req'.valid /\ Len(req'.files) = Len(req'.cars)
          /\ \E i \in 1..Len(req'.files) : req'.files[i] = UpFail) =>
         /\ status' = "success"
         /\ nextId' = nextId + Len(req'.cars)
         /\ \A i \in 1..Len(req'.cars) :
               /\ (nextId + i - 1) \in DOMAIN rows'
               /\ req'.files[i] = UpFail =>
                     rows'[nextId + i - 1].image_filename = NoRef]_vars

\* ---- C7 ----
\* C7: in every state each row's image reference is null or the reference of
\* an image the Image Store holds, and it is null unless an upload for that
\* row succeeded.
Thm_C7 ==
    \A id \in DOMAIN rows :
        \/ rows[id].image_filename = NoRef
        \/ /\ id \in DOMAIN stored
           /\ \E pid \in images : SecureUrl(pid) = rows[id].image_filename

Wit_C7 ==
    /\ op = "Update" /\ req.file = UpOk /\ req.id \in DOMAIN rows
    /\ req.id \in DOMAIN stored
    /\ \E other \in DOMAIN rows : other \notin DOMAIN stored
    /\ images # {}

\* ---- C8 ----
\* C8: List succeeds and returns every record with the reference of the last
\* image stored for it as its image URL, null if none was ever stored.
CE_C8 ==
    op = "List" =>
        /\ status = "success"
        /\ Len(body) = Cardinality(DOMAIN rows)
        /\ \A k \in 1..Len(body) : body[k].image_url = StoredRef(body[k].id)

\* ---- C9 ----
\* C9: Delete of an existing id for which an image was stored calls the Image
\* Store's delete, removes the row and ends in success.
CE_C9 ==
    [][(op' = "Delete" /\ req'.id \in DOMAIN rows /\ req'.id \in DOMAIN stored) =>
         /\ calls' = <<"destroy">>
         /\ req'.id \notin DOMAIN rows'
         /\ status' = "success"]_vars

\* ---- C10 ----
\* C10: every BulkCreate, List, Update and Delete request ends in success,
\* NotFound or ValidationError.
CE_C10 ==
    op \in {"BulkCreate", "List", "Update", "Delete"} => status \in Terminal

====
